---- MODULE Spec2Model ----
(***************************************************************************)
(* Model of split_pdf.py: the two range parsers (parse_page_ranges,        *)
(* parse_multiple_ranges), the two splitters (split_pdf,                   *)
(* split_pdf_multiple) and the part of main that binds them.               *)
(*                                                                         *)
(* Strings are sequences of one-character strings, so that split, strip    *)
(* and int are computed character by character as Python computes them.    *)
(* A PDF document is the sequence of its pages; a page of the source       *)
(* document is identified by its 1-based position in the source.  The      *)
(* filesystem is a function from path to document.                         *)
(***************************************************************************)
EXTENDS Integers, Sequences, FiniteSets

\* ---------------------------------------------------------------- bounds
\* Largest 1-based page number written in a generated range token.
MaxPage == 3
\* Largest number of comma-separated tokens in a generated range string.
MaxTokens == 2
\* Largest page count of the source document.
MaxDocPages == 3

\* ------------------------------------------------------ Python primitives
DigitChars == <<"0", "1", "2", "3", "4", "5", "6", "7", "8", "9">>

IsDigit(c) == \E i \in DOMAIN DigitChars : DigitChars[i] = c

DigitVal(c) == (CHOOSE i \in DOMAIN DigitChars : DigitChars[i] = c) - 1

\* c in s
Contains(s, c) == \E i \in DOMAIN s : s[i] = c

\* s.strip(): drop leading and trailing whitespace.
RECURSIVE LStrip(_)
LStrip(s) == IF s # <<>> /\ Head(s) = " " THEN LStrip(Tail(s)) ELSE s

RECURSIVE RStrip(_)
RStrip(s) ==
    IF s # <<>> /\ s[Len(s)] = " " THEN RStrip(SubSeq(s, 1, Len(s) - 1)) ELSE s

Strip(s) == RStrip(LStrip(s))

\* s.split(sep): the pieces of s between occurrences of sep; always at least
\* one piece, empty pieces kept.
RECURSIVE SplitFrom(_, _, _)
SplitFrom(s, sep, cur) ==
    IF s = <<>> THEN <<cur>>
    ELSE IF Head(s) = sep THEN <<cur>> \o SplitFrom(Tail(s), sep, <<>>)
    ELSE SplitFrom(Tail(s), sep, Append(cur, Head(s)))

Split(s, sep) == SplitFrom(s, sep, <<>>)

\* Faulty variant: int('') taken as a number.
IsInt_AcceptsEmpty(s) ==
    LET t == Strip(s) IN \A i \in DOMAIN t : IsDigit(t[i])

\* int(s) succeeds: after stripping whitespace, a non-empty run of digits.
\* (A sign never reaches int(): an operand of an interval holds no '-', and
\* a scalar token is one without '-'; the generated strings hold no '+' or
\* '_'.)
IsInt(s) ==
    LET t == Strip(s) IN t # <<>> /\ \A i \in DOMAIN t : IsDigit(t[i])

RECURSIVE DecVal(_, _)
DecVal(t, acc) ==
    IF t = <<>> THEN acc ELSE DecVal(Tail(t), acc * Len(DigitChars) + DigitVal(Head(t)))

\* the value of int(s) when it succeeds
IntVal(s) == DecVal(Strip(s), 0)

\* sorted(list(S)) for a finite set of integers
RECURSIVE Sorted(_)
Sorted(S) ==
    IF S = {} THEN <<>>
    ELSE LET m == CHOOSE x \in S : \A y \in S : x <= y
         IN <<m>> \o Sorted(S \ {m})

\* set(seq)
Range(seq) == {seq[i] : i \in DOMAIN seq}

\* [f(x) for x in range(lo, hi + 1)] with f(x) = x - 1
ZeroBasedRange(lo, hi) == [i \in 1..(IF hi >= lo THEN hi - lo + 1 ELSE 0) |-> lo + i - 2]

\* ----------------------------------------------------------------- parsers
\* One iteration of the token loop, on the stripped token: the pages it
\* yields, or a ValueError (from the tuple unpacking or from int()).
ParseRangePart(range_part) ==
    IF Contains(range_part, "-")
    THEN LET parts == Split(range_part, "-") IN
         IF Len(parts) # 2 \/ ~IsInt(parts[1]) \/ ~IsInt(parts[2])
         THEN [ok |-> FALSE, pages |-> <<>>]
         ELSE [ok |-> TRUE,
               pages |-> ZeroBasedRange(IntVal(parts[1]), IntVal(parts[2]))]
    ELSE IF ~IsInt(range_part)
         THEN [ok |-> FALSE, pages |-> <<>>]
         ELSE [ok |-> TRUE, pages |-> <<IntVal(range_part) - 1>>]

\* The stripped tokens of a range string, in order.
RangeParts(ranges_str) ==
    LET ranges == Split(ranges_str, ",")
    IN [i \in DOMAIN ranges |-> Strip(ranges[i])]

\* Faulty variant: a list instead of a set, never sorted.
RECURSIVE FlattenPages(_)
FlattenPages(res) ==
    IF res = <<>> THEN <<>> ELSE Head(res).pages \o FlattenPages(Tail(res))

parse_page_ranges_Unsorted(ranges_str) ==
    LET parts == RangeParts(ranges_str)
        res == [i \in DOMAIN parts |-> ParseRangePart(parts[i])]
    IN IF \E i \in DOMAIN res : ~res[i].ok
       THEN [ok |-> FALSE, pages |-> <<>>]
       ELSE [ok |-> TRUE, pages |-> FlattenPages(res)]

\* parse_page_ranges: [ok |-> FALSE] when a token raises, else the sorted
\* list of the set of all pages of all tokens.
parse_page_ranges(ranges_str) ==
    LET parts == RangeParts(ranges_str)
        res == [i \in DOMAIN parts |-> ParseRangePart(parts[i])]
    IN IF \E i \in DOMAIN res : ~res[i].ok
       THEN [ok |-> FALSE, pages |-> <<>>]
       ELSE [ok |-> TRUE,
             pages |-> Sorted(UNION {Range(res[i].pages) : i \in DOMAIN res})]

\* Faulty variant: a page already listed by an earlier range is dropped.
parse_multiple_ranges_Dedup(ranges_str) ==
    LET parts == RangeParts(ranges_str)
        res == [i \in DOMAIN parts |-> ParseRangePart(parts[i])]
        fresh(i, p) == \A j \in 1..(i - 1) : p \notin Range(res[j].pages)
    IN IF \E i \in DOMAIN res : ~res[i].ok
       THEN [ok |-> FALSE, ranges_list |-> <<>>]
       ELSE [ok |-> TRUE,
             ranges_list |-> [i \in DOMAIN parts |->
                                [rango_nombre |-> parts[i],
                                 pages |-> SelectSeq(res[i].pages, LAMBDA p : fresh(i, p))]]]

\* parse_multiple_ranges: [ok |-> FALSE] when a token raises, else the list
\* of (rango_nombre, pages) pairs in token order.
parse_multiple_ranges(ranges_str) ==
    LET parts == RangeParts(ranges_str)
        res == [i \in DOMAIN parts |-> ParseRangePart(parts[i])]
    IN IF \E i \in DOMAIN res : ~res[i].ok
       THEN [ok |-> FALSE, ranges_list |-> <<>>]
       ELSE [ok |-> TRUE,
             ranges_list |-> [i \in DOMAIN parts |->
                                [rango_nombre |-> parts[i], pages |-> res[i].pages]]]

\* ------------------------------------------------------------- documents
\* Faulty variants of the bounds check: no lower bound; upper bound off by one.
OutOfRange_NoLowerBound(page_num, total) == page_num >= total

OutOfRange_OffByOne(page_num, total) == page_num < 0 \/ page_num > total

\* The first page_num of pages, in list order, that fails the bounds check
\* `page_num < 0 or page_num >= total_pages`; position 0 when none fails.
OutOfRange(page_num, total) == page_num < 0 \/ page_num >= total

FirstBadPos(pgs, total) ==
    IF \E i \in DOMAIN pgs : OutOfRange(pgs[i], total)
    THEN CHOOSE i \in DOMAIN pgs :
            /\ OutOfRange(pgs[i], total)
            /\ \A j \in 1..(i - 1) : ~OutOfRange(pgs[j], total)
    ELSE 0

\* reader.pages[page_num] is defined (a Python index, negative ones counting
\* from the end); otherwise it raises IndexError.
Indexable(doc, page_num) == -Len(doc) <= page_num /\ page_num < Len(doc)

PageAt(doc, page_num) ==
    IF page_num >= 0 THEN doc[page_num + 1] ELSE doc[Len(doc) + page_num + 1]

\* Faulty variant: the pages added last to first.
Assemble_Reversed(doc, pgs) == [j \in DOMAIN pgs |-> doc[pgs[Len(pgs) - j + 1] + 1]]

\* The document a PdfWriter holds after add_page(reader.pages[p]) for p in pgs.
Assemble(doc, pgs) == [j \in DOMAIN pgs |-> PageAt(doc, pgs[j])]

\* open(path, 'wb') followed by writer.write: the file is created or replaced.
WriteFile(fs, path, doc) ==
    [n \in DOMAIN fs \cup {path} |-> IF n = path THEN doc ELSE fs[n]]

\* Faulty variant: the range's label left out of the file name.
OutputFilename_NoLabel(output_prefix, rango_nombre) ==
    <<output_prefix, "_paginas_", ".pdf">>

\* f"{output_prefix}_paginas_{rango_nombre}.pdf"
OutputFilename(output_prefix, rango_nombre) ==
    <<output_prefix, "_paginas_">> \o rango_nombre \o <<".pdf">>

\* ------------------------------------------------------------------ inputs
\* Paths are sequences of pieces, the extension being the last piece.
InputPath == <<"entrada", ".pdf">>
OutPath == <<"salida", ".pdf">>
OutPathNoSuffix == <<"salida">>
Prefijo == "entrada"

\* main: append '.pdf' to an output path that does not end with it.
WithPdfSuffix(path) ==
    IF path # <<>> /\ path[Len(path)] = ".pdf" THEN path ELSE path \o <<".pdf">>

\* str(n), n >= 0
RECURSIVE NumStr(_)
NumStr(n) ==
    IF n < Len(DigitChars) THEN <<DigitChars[n + 1]>>
    ELSE NumStr(n \div Len(DigitChars)) \o <<DigitChars[(n % Len(DigitChars)) + 1]>>

\* What the user means by a token: a page, an interval a-b (possibly typed
\* with blanks around the numbers), or a piece of text that is no range.
PageTok(p, pad) == [kind |-> "page", a |-> p, b |-> p, pad |-> pad, text |-> <<>>]
IntervalTok(a, b, pad) == [kind |-> "interval", a |-> a, b |-> b, pad |-> pad, text |-> <<>>]
RawTok(text) == [kind |-> "raw", a |-> 0, b |-> 0, pad |-> FALSE, text |-> text]

Pad(s, pad) == IF pad THEN <<" ">> \o s \o <<" ">> ELSE s

TokText(t) ==
    IF t.kind = "page" THEN Pad(NumStr(t.a), t.pad)
    ELSE IF t.kind = "interval"
         THEN Pad(NumStr(t.a), t.pad) \o <<"-">> \o Pad(NumStr(t.b), t.pad)
    ELSE t.text

RawTexts ==
    { <<"x">>, <<"1", "-">>, <<"-", "1">>, <<"1", "-", "x">>,
      <<"1", "-", "2", "-", "3">> }

\* The intervals a-b typed; of the inverted ones, those with a = b + 1 stand
\* for all.
IntervalToks ==
    {t \in {IntervalTok(a, b, FALSE) : a \in 1..MaxPage, b \in 0..MaxPage} : t.a <= t.b + 1}

TokenSet ==
    {PageTok(p, FALSE) : p \in 0..MaxPage}
    \cup IntervalToks
    \cup {IntervalTok(1, 2, TRUE)}
    \cup {RawTok(x) : x \in RawTexts}

RECURSIVE Join(_)
Join(toks) ==
    IF Len(toks) = 1 THEN TokText(toks[1])
    ELSE TokText(toks[1]) \o <<",">> \o Join(Tail(toks))

\* A source document of n pages.
SourceDoc(n) == [i \in 1..n |-> i]

\* A document left at the output path by an earlier run.
OldDoc == <<0>>

NoError == [kind |-> "none", page |-> 0, total |-> 0]

\* ------------------------------------------------------------------- state
VARIABLES
    pc,             \* position in main / split_pdf / split_pdf_multiple
    modo,           \* "n": one output file, "s": one file per range
    tokens,         \* what the user typed, token by token (ghost)
    ranges_str,     \* the range string handed to the parsers
    output_path,    \* single mode: the output path
    disk,           \* the filesystem: path -> document
    disk0,          \* the filesystem when the run started (ghost)
    opened,         \* PdfReader(input_path) has been executed
    reader,         \* reader.pages, once opened
    total_pages,    \* len(reader.pages), once opened
    pages,          \* single mode: the parsed index list
    ranges_list,    \* multi mode: the parsed (rango_nombre, pages) list
    k,              \* multi mode: position of the loop in ranges_list
    created_files,  \* multi mode: the list returned
    error,          \* the exception that ended the run, if any
    writes          \* paths written so far, in order (ghost)

vars == <<pc, modo, tokens, ranges_str, output_path, disk, disk0, opened, reader,
          total_pages, pages, ranges_list, k, created_files, error, writes>>

\* The input file is missing or holds 1..MaxDocPages pages.
InputDisks == {<<>>} \cup {WriteFile(<<>>, InputPath, SourceDoc(n)) : n \in 1..MaxDocPages}

\* Single mode: the output path names a new file, or (typed without '.pdf')
\* a file left by an earlier run, or the input path itself.  Multi mode: the
\* output files are new.
Setups ==
    {[modo |-> "n", output_path |-> OutPath, disk |-> d] : d \in InputDisks}
    \cup {[modo |-> "n", output_path |-> OutPathNoSuffix,
            disk |-> WriteFile(d, OutPath, OldDoc)] : d \in InputDisks}
    \cup {[modo |-> "n", output_path |-> InputPath, disk |-> d] : d \in InputDisks}
    \cup {[modo |-> "s", output_path |-> OutPath, disk |-> d] : d \in InputDisks}

Init ==
    /\ pc = "main"
    /\ \E c \in Setups : modo = c.modo /\ output_path = c.output_path /\ disk = c.disk
    /\ tokens \in UNION {[1..n -> TokenSet] : n \in 1..MaxTokens}
    /\ ranges_str = Join(tokens)
    /\ disk0 = disk
    /\ opened = FALSE
    /\ reader = <<>>
    /\ total_pages = 0
    /\ pages = <<>>
    /\ ranges_list = <<>>
    /\ k = 0
    /\ created_files = <<>>
    /\ error = NoError
    /\ writes = <<>>

Fail(kind, page, total) ==
    /\ error' = [kind |-> kind, page |-> page, total |-> total]
    /\ pc' = "exit1"

\* ------------------------------------------------------------ single mode
\* main, modo 'n': complete the output path, parse the ranges, then call
\* split_pdf.
MainParseSingle ==
    /\ pc = "main" /\ modo = "n"
    /\ output_path' = WithPdfSuffix(output_path)
    /\ LET r == parse_page_ranges(ranges_str) IN
       IF r.ok
       THEN /\ pages' = r.pages
            /\ pc' = "sp_exists"
            /\ UNCHANGED error
       ELSE /\ Fail("ParseError", 0, 0)
            /\ UNCHANGED pages
    /\ UNCHANGED <<modo, tokens, ranges_str, disk, disk0, opened, reader,
                   total_pages, ranges_list, k, created_files, writes>>

\* split_pdf: os.path.exists(input_path)
SplitPdfExists ==
    /\ pc = "sp_exists"
    /\ IF InputPath \in DOMAIN disk
       THEN pc' = "sp_read" /\ UNCHANGED error
       ELSE Fail("FileNotFoundError", 0, 0)
    /\ UNCHANGED <<modo, tokens, ranges_str, output_path, disk, disk0, opened, reader,
                   total_pages, pages, ranges_list, k, created_files, writes>>

\* split_pdf: reader = PdfReader(input_path); total_pages = len(reader.pages)
SplitPdfRead ==
    /\ pc = "sp_read"
    /\ opened' = TRUE
    /\ reader' = disk[InputPath]
    /\ total_pages' = Len(disk[InputPath])
    /\ pc' = "sp_validate"
    /\ UNCHANGED <<modo, tokens, ranges_str, output_path, disk, disk0, pages,
                   ranges_list, k, created_files, error, writes>>

\* split_pdf: the validation loop
SplitPdfValidate ==
    /\ pc = "sp_validate"
    /\ LET bad == FirstBadPos(pages, total_pages) IN
       IF bad # 0
       THEN Fail("RangeError", pages[bad] + 1, total_pages)
       ELSE pc' = "sp_write" /\ UNCHANGED error
    /\ UNCHANGED <<modo, tokens, ranges_str, output_path, disk, disk0, opened, reader,
                   total_pages, pages, ranges_list, k, created_files, writes>>

\* split_pdf: fill the writer, then write it to output_path
SplitPdfWrite ==
    /\ pc = "sp_write"
    /\ IF \A i \in DOMAIN pages : Indexable(reader, pages[i])
       THEN /\ disk' = WriteFile(disk, output_path, Assemble(reader, pages))
            /\ writes' = Append(writes, output_path)
            /\ pc' = "exit0"
            /\ UNCHANGED error
       ELSE /\ Fail("IndexError", 0, 0)
            /\ UNCHANGED <<disk, writes>>
    /\ UNCHANGED <<modo, tokens, ranges_str, output_path, disk0, opened, reader,
                   total_pages, pages, ranges_list, k, created_files>>

\* ------------------------------------------------------------- multi mode
\* split_pdf_multiple: os.path.exists(input_path)
MultiExists ==
    /\ pc = "main" /\ modo = "s"
    /\ IF InputPath \in DOMAIN disk
       THEN pc' = "sm_read" /\ UNCHANGED error
       ELSE Fail("FileNotFoundError", 0, 0)
    /\ UNCHANGED <<modo, tokens, ranges_str, output_path, disk, disk0, opened, reader,
                   total_pages, pages, ranges_list, k, created_files, writes>>

\* split_pdf_multiple: reader = PdfReader(input_path); total_pages = ...
MultiRead ==
    /\ pc = "sm_read"
    /\ opened' = TRUE
    /\ reader' = disk[InputPath]
    /\ total_pages' = Len(disk[InputPath])
    /\ pc' = "sm_parse"
    /\ UNCHANGED <<modo, tokens, ranges_str, output_path, disk, disk0, pages,
                   ranges_list, k, created_files, error, writes>>

\* split_pdf_multiple: ranges_list = parse_multiple_ranges(ranges_str)
MultiParse ==
    /\ pc = "sm_parse"
    /\ LET r == parse_multiple_ranges(ranges_str) IN
       IF r.ok
       THEN /\ ranges_list' = r.ranges_list
            /\ k' = 1
            /\ pc' = "sm_loop"
            /\ UNCHANGED error
       ELSE /\ Fail("ParseError", 0, 0)
            /\ UNCHANGED <<ranges_list, k>>
    /\ UNCHANGED <<modo, tokens, ranges_str, output_path, disk, disk0, opened, reader,
                   total_pages, pages, created_files, writes>>

\* split_pdf_multiple: the validation loop of the k-th range
MultiValidate ==
    /\ pc = "sm_loop" /\ k <= Len(ranges_list)
    /\ LET pgs == ranges_list[k].pages
           bad == FirstBadPos(pgs, total_pages)
       IN IF bad # 0
          THEN Fail("RangeError", pgs[bad] + 1, total_pages)
          ELSE pc' = "sm_write" /\ UNCHANGED error
    /\ UNCHANGED <<modo, tokens, ranges_str, output_path, disk, disk0, opened, reader,
                   total_pages, pages, ranges_list, k, created_files, writes>>

\* split_pdf_multiple: name, fill and write the file of the k-th range
MultiWrite ==
    /\ pc = "sm_write"
    /\ LET pgs == ranges_list[k].pages
           output_filename == OutputFilename(Prefijo, ranges_list[k].rango_nombre)
       IN IF \A i \in DOMAIN pgs : Indexable(reader, pgs[i])
          THEN /\ disk' = WriteFile(disk, output_filename, Assemble(reader, pgs))
               /\ writes' = Append(writes, output_filename)
               /\ created_files' = Append(created_files, output_filename)
               /\ k' = k + 1
               /\ pc' = "sm_loop"
               /\ UNCHANGED error
          ELSE /\ Fail("IndexError", 0, 0)
               /\ UNCHANGED <<disk, writes, created_files, k>>
    /\ UNCHANGED <<modo, tokens, ranges_str, output_path, disk0, opened, reader,
                   total_pages, pages, ranges_list>>

\* split_pdf_multiple: return created_files
MultiReturn ==
    /\ pc = "sm_loop" /\ k > Len(ranges_list)
    /\ pc' = "exit0"
    /\ UNCHANGED <<modo, tokens, ranges_str, output_path, disk, disk0, opened, reader,
                   total_pages, pages, ranges_list, k, created_files, error, writes>>

Next ==
    \/ MainParseSingle
    \/ SplitPdfExists
    \/ SplitPdfRead
    \/ SplitPdfValidate
    \/ SplitPdfWrite
    \/ MultiExists
    \/ MultiRead
    \/ MultiParse
    \/ MultiValidate
    \/ MultiWrite
    \/ MultiReturn

Spec == Init /\ [][Next]_vars

\* =========================================================================
\* Vocabulary of the properties, stated on what the user typed (tokens) and
\* on the filesystem at the start of the run (disk0), not on the parsers.
\* =========================================================================
Terminated == pc \in {"exit0", "exit1"}

InputExists == InputPath \in DOMAIN disk0

\* The source document and its page count N (when the input exists).
Source == disk0[InputPath]
N == Len(Source)

\* The 1-based page numbers a token denotes.
Denoted(t) == IF t.kind = "raw" THEN {} ELSE t.a .. t.b

\* The index list of a token: its pages in ascending order, zero-based.
IndexList(t) ==
    [i \in 1..(IF t.kind # "raw" /\ t.b >= t.a THEN t.b - t.a + 1 ELSE 0) |-> t.a + i - 2]

Malformed(t) == t.kind = "raw"
Inverted(t) == t.kind = "interval" /\ t.a > t.b
ValidTok(t) == t.kind # "raw" /\ 1 <= t.a /\ t.a <= t.b

AllIndices == UNION {{p - 1 : p \in Denoted(tokens[i])} : i \in DOMAIN tokens}

InRange(i) == 0 <= i /\ i < N

\* The source pages at the indices of a list of valid indices.
PagesOf(ixs) == [j \in DOMAIN ixs |-> Source[ixs[j] + 1]]

\* Files other than those in W are as they were at the start.
OnlyWritten(W) ==
    /\ DOMAIN disk = DOMAIN disk0 \cup W
    /\ \A f \in DOMAIN disk0 \ W : disk[f] = disk0[f]

\* The parsers have run (and raised or returned).
ParsedSingle == modo = "n" /\ pc # "main"
ParsedMulti == modo = "s" /\ opened /\ pc # "sm_parse"

\* ---------------------------------------------------------------------- C1
\* C1: in single-output splitting of an N-page source, once the validation
\* loop has run on an index list holding an index outside 0..N-1, the run has
\* failed with the range error naming the first offending 1-based page number
\* and N, and the filesystem - the output path in particular - is exactly as
\* it was before the run: nothing was created or overwritten.
C1_RangeErrorNoOutput ==
    (/\ modo = "n" /\ opened /\ pc # "sp_validate"
     /\ \E i \in DOMAIN pages : ~InRange(pages[i]))
    => LET first == CHOOSE i \in DOMAIN pages :
                       /\ ~InRange(pages[i])
                       /\ \A j \in 1..(i - 1) : InRange(pages[j])
       IN /\ pc = "exit1"
          /\ error = [kind |-> "RangeError", page |-> pages[first] + 1, total |-> N]
          /\ writes = <<>>
          /\ disk = disk0

\* Page N+1 was asked for while a file from an earlier run sits at the output
\* path: the run failed naming N+1 and N.
C1_Witness ==
    /\ modo = "n" /\ pc = "exit1" /\ error.kind = "RangeError"
    /\ error.page = error.total + 1
    /\ output_path \in DOMAIN disk0
    /\ disk[output_path] = OldDoc

\* ---------------------------------------------------------------------- C2
\* The first sub-range, in token order, that holds an out-of-range index
\* (0 when there is none).
FirstBadRange ==
    IF \E j \in DOMAIN tokens : \E p \in Denoted(tokens[j]) : ~InRange(p - 1)
    THEN CHOOSE j \in DOMAIN tokens :
            /\ \E p \in Denoted(tokens[j]) : ~InRange(p - 1)
            /\ \A i \in 1..(j - 1) : \A p \in Denoted(tokens[i]) : InRange(p - 1)
    ELSE 0

\* C2: in multi-output splitting, when sub-range kk is the first to hold an
\* out-of-range index, no file is ever written for sub-range kk or a later
\* one, and the run ends with the range error, the files of the sub-ranges
\* 1..kk-1 written in token order, each still holding its own pages, and
\* nothing else on the filesystem changed.
C2_PartialFailureNoRollback ==
    (ParsedMulti /\ error.kind # "ParseError" /\ FirstBadRange # 0)
    => LET kk == FirstBadRange
           name(j) == OutputFilename(Prefijo, ranges_list[j].rango_nombre)
       IN /\ Len(writes) < kk
          /\ \A j \in 1..Len(writes) :
                /\ writes[j] = name(j)
                /\ disk[name(j)] = PagesOf(IndexList(tokens[j]))
          /\ OnlyWritten({writes[j] : j \in DOMAIN writes})
          /\ Terminated =>
                /\ pc = "exit1"
                /\ error.kind = "RangeError" /\ error.total = N
                /\ Len(writes) = kk - 1
                /\ created_files = writes

\* The second sub-range failed after the file of the first was written.
C2_Witness ==
    /\ modo = "s" /\ pc = "exit1" /\ error.kind = "RangeError"
    /\ Len(writes) >= 1
    /\ writes[1] \in DOMAIN disk

\* ---------------------------------------------------------------------- C3
\* C3 (as claimed): on every run whose range string holds a malformed token,
\* in either mode, the source document is never opened and no output file is
\* written.
C3_ParseErrorBeforeIO ==
    (\E i \in DOMAIN tokens : Malformed(tokens[i]))
    => ~opened /\ writes = <<>>

\* ---------------------------------------------------------------------- C4
\* C4 (as claimed): once a parser has returned without error, no token was
\* non-numeric, short of an operand or an inverted interval, and every token
\* denotes one or more positive page numbers.
C4_EveryTokenYieldsPositivePages ==
    ((ParsedSingle \/ ParsedMulti) /\ error.kind # "ParseError")
    => \A i \in DOMAIN tokens :
          /\ ~Malformed(tokens[i])
          /\ ~Inverted(tokens[i])
          /\ Denoted(tokens[i]) # {}
          /\ \A p \in Denoted(tokens[i]) : p >= 1

\* C4 (amended): both parsers fail exactly when some token is non-numeric,
\* short of an operand or holds more than one '-'.  Otherwise every token
\* a-b contributes the pages a..b: none when a > b (an inverted interval does
\* not fail), and the non-positive page 0 (index -1) when a = 0.
C4_MalformedFailsInvertedIsEmpty ==
    /\ ParsedSingle =>
          /\ (error.kind = "ParseError") <=> (\E i \in DOMAIN tokens : Malformed(tokens[i]))
          /\ error.kind # "ParseError" => {pages[i] : i \in DOMAIN pages} = AllIndices
    /\ ParsedMulti =>
          /\ (error.kind = "ParseError") <=> (\E i \in DOMAIN tokens : Malformed(tokens[i]))
          /\ error.kind # "ParseError" =>
                /\ Len(ranges_list) = Len(tokens)
                /\ \A j \in DOMAIN tokens : ranges_list[j].pages = IndexList(tokens[j])

\* The multi parser returned an empty index list for an inverted interval and
\* the index -1 for page 0.
C4_Witness ==
    /\ modo = "s" /\ pc = "sm_loop" /\ Len(tokens) = 2
    /\ Inverted(tokens[1]) /\ ranges_list[1].pages = <<>>
    /\ tokens[2].kind = "page" /\ ranges_list[2].pages = <<-1>>

\* ---------------------------------------------------------------------- C5
\* C5: for every valid range string (every token a page p >= 1 or an
\* interval a-b with 1 <= a <= b; any order, overlapping or repeated),
\* parse_page_ranges succeeds and returns a strictly ascending list whose
\* elements are exactly the p - 1 for the pages p denoted by some token.
C5_SortedUniqueIndexSet ==
    (ParsedSingle /\ \A i \in DOMAIN tokens : ValidTok(tokens[i]))
    => /\ error.kind # "ParseError"
       /\ \A i \in 1..(Len(pages) - 1) : pages[i] < pages[i + 1]
       /\ {pages[i] : i \in DOMAIN pages} = AllIndices

\* Two overlapping intervals given out of order were merged and sorted.
C5_Witness ==
    /\ modo = "n" /\ pc = "sp_exists" /\ Len(tokens) = 2
    /\ tokens[1].kind = "interval" /\ tokens[2].kind = "interval"
    /\ ValidTok(tokens[1]) /\ ValidTok(tokens[2])
    /\ tokens[2].a < tokens[1].a /\ tokens[1].a <= tokens[2].b
    /\ Len(pages) < Cardinality(Denoted(tokens[1])) + Cardinality(Denoted(tokens[2]))

RECURSIVE ConcatFiles(_)
ConcatFiles(names) ==
    IF names = <<>> THEN <<>> ELSE disk[Head(names)] \o ConcatFiles(Tail(names))

NonOverlapping ==
    \A i \in DOMAIN tokens : \A j \in DOMAIN tokens :
        i # j => Denoted(tokens[i]) \cap Denoted(tokens[j]) = {}

Covering == InputExists /\ UNION {Denoted(tokens[i]) : i \in DOMAIN tokens} = 1..N

Ascending ==
    \A i \in DOMAIN tokens : \A j \in DOMAIN tokens :
        i < j => \A p \in Denoted(tokens[i]) : \A q \in Denoted(tokens[j]) : p < q

\* C7 (as claimed): after a multi-output run on sub-ranges that do not
\* overlap and together cover the N source pages, the files concatenated in
\* the order returned are the source.
C7_RoundTrip ==
    (modo = "s" /\ pc = "exit0" /\ NonOverlapping /\ Covering)
    => ConcatFiles(created_files) = Source

\* C7 (amended): the same, for sub-ranges that are moreover listed in
\* ascending page order.
C7_RoundTripAscending ==
    (modo = "s" /\ Terminated /\ NonOverlapping /\ Covering /\ Ascending
       /\ \A i \in DOMAIN tokens : ~Malformed(tokens[i]))
    => /\ pc = "exit0"
       /\ ConcatFiles(created_files) = Source

\* A source of several pages was split in two files and put together again.
C7_Witness ==
    /\ modo = "s" /\ pc = "exit0" /\ NonOverlapping /\ Covering /\ Ascending
    /\ Len(created_files) = 2 /\ N >= 2
    /\ disk[created_files[1]] # <<>> /\ disk[created_files[2]] # <<>>

\* ---------------------------------------------------------------------- C8
\* C8: in multi-output mode the index list parsed for a sub-range is its own
\* token's list in ascending order, and the file written for it holds exactly
\* the source pages at those indices, whatever the other sub-ranges are: no
\* merging and no deduplication across sub-ranges.
C8_OwnIndexListPerSubRange ==
    (ParsedMulti /\ error.kind # "ParseError")
    => /\ \A j \in DOMAIN tokens : ranges_list[j].pages = IndexList(tokens[j])
       /\ Len(created_files) <= Len(tokens)
       /\ \A j \in DOMAIN created_files :
             disk[created_files[j]] = PagesOf(IndexList(tokens[j]))

\* Two overlapping intervals gave two files, both holding the shared page.
C8_Witness ==
    /\ modo = "s" /\ pc = "exit0"
    /\ tokens = <<IntervalTok(1, 2, FALSE), IntervalTok(2, 3, FALSE)>>
    /\ Len(created_files) = 2 /\ created_files[1] # created_files[2]
    /\ disk[created_files[1]] = <<Source[1], Source[2]>>
    /\ disk[created_files[2]] = <<Source[2], Source[3]>>

\* ---------------------------------------------------------------------- C9
\* C9 (as claimed): a run on a missing input path, in either mode and for any
\* range string, ends with the not-found error, the document never opened and
\* nothing written.
C9_MissingInputNotFound ==
    (~InputExists /\ Terminated)
    => /\ pc = "exit1"
       /\ error.kind = "FileNotFoundError"
       /\ ~opened
       /\ writes = <<>>
       /\ disk = disk0

\* --------------------------------------------------------------------- C10
\* C10 (as claimed): after a successful multi-output run on k tokens the list
\* returned has k entries, in token order, naming k distinct files, each
\* holding the pages of its own sub-range; k files were created.
C10_OneFilePerSubRange ==
    (modo = "s" /\ pc = "exit0")
    => /\ Len(created_files) = Len(tokens)
       /\ \A j \in DOMAIN created_files :
             /\ created_files[j] = OutputFilename(Prefijo, ranges_list[j].rango_nombre)
             /\ disk[created_files[j]] = PagesOf(IndexList(tokens[j]))
       /\ Cardinality({created_files[j] : j \in DOMAIN created_files}) = Len(tokens)
       /\ Cardinality(DOMAIN disk \ DOMAIN disk0) = Len(tokens)

====
